---------------------------- MODULE Spec2Model ----------------------------
(***************************************************************************)
(* CoverScope: the request pipeline of app.py and the analytics and        *)
(* clustering functions it calls (utils/analytics.py,                      *)
(* utils/ml_classifier.py, utils/youtube_api.py).                          *)
(*                                                                         *)
(* The program keeps no state between requests: every function is applied  *)
(* to its arguments and returns or raises.  The state of the model is one  *)
(* call in flight: `call` holds the function and its arguments, `ret` is   *)
(* Pending until the function has run and then holds what Python produced: *)
(* a returned value or a raised exception.                                 *)
(*                                                                         *)
(* Text is modelled as TLA+ strings with the source's own keywords.  A     *)
(* character outside ASCII is written as its code point between angle      *)
(* brackets, "<30ab>" for U+30AB, so that one text contains another        *)
(* exactly when the original texts do; no generated text holds an angle    *)
(* bracket of its own.                                                     *)
(* Python floats are modelled in fixed point (see calculate_trend_score).  *)
(***************************************************************************)
EXTENDS Integers, Sequences, FiniteSets, TLC

VARIABLES call, ret

vars == <<call, ret>>

----------------------------------------------------------------------------
(* Bounds of the model.                                                    *)

\* Most phrases joined into one generated title.
MaxTitleParts == 2

\* Longest list of records handed to the trend scorer one by one (longer
\* lists are one record many times over, see TrendInputs).
MaxTrendVideos == 2

\* Longest list of records handed to get_monthly_upload_data.
MaxMonthlyVideos == 3

\* Longest list of cover records handed to cluster_cover_videos.
MaxClusterVideos == 4

\* Longest list of records search_youtube_covers returns to results().
MaxFoundVideos == 4

\* Highest score, in tenths of a point, handed to generate_trend_summary.
MaxScoreTenths == 1200

----------------------------------------------------------------------------
(* Python outcomes.                                                        *)

Pending == [kind |-> "pending"]

Return(v) == [kind |-> "return", value |-> v]

\* An uncaught exception, with the stage of the caller it escaped from.
Raise(exc, at) == [kind |-> "raise", exc |-> exc, at |-> at]

----------------------------------------------------------------------------
(* Strings.                                                                *)

UpperAlpha == "ABCDEFGHIJKLMNOPQRSTUVWXYZ"

LowerAlpha == "abcdefghijklmnopqrstuvwxyz"

CharAt(s, i) == SubSeq(s, i, i)

\* Python's `kw in text`.
Contains(text, kw) ==
    \E i \in 1..(Len(text) - Len(kw) + 1) : SubSeq(text, i, i + Len(kw) - 1) = kw

\* The ASCII capitals, and the small letter of each.
Capitals == {CharAt(UpperAlpha, i) : i \in 1..Len(UpperAlpha)}

SmallLetterOf ==
    [c \in Capitals |->
        CharAt(LowerAlpha, CHOOSE k \in 1..Len(UpperAlpha) : CharAt(UpperAlpha, k) = c)]

\* str.lower() of one character: ASCII capitals fold, the Japanese scripts of
\* the keyword tables have no case and pass through.
LowerChar(c) == IF c \in Capitals THEN SmallLetterOf[c] ELSE c

\* str.lower(): every character folded, halves at a time.
RECURSIVE Lower(_)
Lower(s) ==
    IF Len(s) = 0 THEN ""
    ELSE IF Len(s) = 1 THEN LowerChar(s)
    ELSE LET h == Len(s) \div 2
         IN  Lower(SubSeq(s, 1, h)) \o Lower(SubSeq(s, h + 1, Len(s)))

\* dict.get(key, default)
Get(d, key, default) == IF key \in DOMAIN d THEN d[key] ELSE default

\* The elements of a list.
Range(seq) == {seq[i] : i \in DOMAIN seq}

RECURSIVE JoinWords(_)
JoinWords(ws) ==
    IF Len(ws) = 0 THEN ""
    ELSE IF Len(ws) = 1 THEN ws[1]
    ELSE ws[1] \o " " \o JoinWords(Tail(ws))

\* The texts made of at most n of the given phrases, separated by blanks.
Phrases(parts, n) ==
    {JoinWords(ws) : ws \in UNION {[1..k -> parts] : k \in 0..n}}

----------------------------------------------------------------------------
(* utils/analytics.py: keyword tables.                                     *)

ACOUSTIC_KEYWORDS ==
    <<"acoustic",
      "acoustic version",
      "unplugged",
      "<30a2><30b3><30fc><30b9><30c6><30a3><30c3><30af>",  \* アコースティック
      "<30a2><30b3><30ae>">>  \* アコギ

BAND_KEYWORDS ==
    <<"band",
      "full band",
      "arrange",
      "arrangement",
      "<30d0><30f3><30c9><30ab><30d0><30fc>",  \* バンドカバー
      "<7de8><6210>",  \* 編成
      "full arrangement",
      "<30a2><30ec><30f3><30b8>">>  \* アレンジ

VOCAL_KEYWORDS ==
    <<"vocal",
      "vocals",
      "a cappella",
      "a-capella",
      "vocal cover",
      "sing",
      "<6b4c><3063><3066><307f><305f>",  \* 歌ってみた
      "<30dc><30fc><30ab><30eb>",  \* ボーカル
      "<30dc><30fc><30ab><30eb><30ab><30d0><30fc>",  \* ボーカルカバー
      "<30a2><30ab><30da><30e9>",  \* アカペラ
      "<6b4c><308f><305b><3066><3044><305f><3060><304d><307e><3057><305f>",  \* 歌わせていただきました
      "<6b4c><3063><3066><307f><305f>">>  \* 歌ってみた

INSTRUMENTAL_KEYWORDS ==
    <<"instrumental",
      "inst",
      "instrumental cover",
      "piano",
      "guitar",
      "drum",
      "bass",
      "solo",
      "<5f3e><3044><3066><307f><305f>",  \* 弾いてみた
      "<30a4><30f3><30b9><30c8>",  \* インスト
      "<30d4><30a2><30ce>",  \* ピアノ
      "<30ae><30bf><30fc>">>  \* ギター

COVER_TYPE_MAP ==
    [acoustic     |-> [name |-> "Acoustic / Soft", icon |-> "bi bi-music-note-beamed"],
     band         |-> [name |-> "Band / Full Arrangement", icon |-> "bi bi-people-fill"],
     vocal        |-> [name |-> "Vocal cover", icon |-> "bi bi-mic-fill"],
     instrumental |-> [name |-> "Instrumental", icon |-> "bi bi-music-note-list"],
     other        |-> [name |-> "Other / Remix", icon |-> "bi bi-question-circle-fill"]]

----------------------------------------------------------------------------
(* utils/analytics.py: classify_video_title.                               *)

cover_keywords ==
    <<"cover",
      "acoustic",
      "band cover",
      "piano cover",
      "guitar cover",
      "drum cover",
      "instrumental cover",
      "vocals cover",
      "acoustic version",
      "arrangement",
      "cover version",
      "cover by",
      "<6b4c><3063><3066><307f><305f>",  \* 歌ってみた
      "<5f3e><3044><3066><307f><305f>",  \* 弾いてみた
      "<53e9><3044><3066><307f><305f>",  \* 叩いてみた
      "<5f3e><304d><8a9e><308a>",  \* 弾き語り
      "<5f3e><304d><8a9e><3063><3066><307f><305f>",  \* 弾き語ってみた
      "<30ab><30d0><30fc>",  \* カバー
      "<30a2><30ec><30f3><30b8>",  \* アレンジ
      "<30d4><30a2><30ce>",  \* ピアノ
      "<30ae><30bf><30fc>",  \* ギター
      "<30d0><30f3><30c9><30ab><30d0><30fc>",  \* バンドカバー
      "<30a4><30f3><30b9><30c8>",  \* インスト
      "<30a2><30b3><30fc><30b9><30c6><30a3><30c3><30af>",  \* アコースティック
      "<6b4c><308f><305b><3066><3044><305f><3060><304d><307e><3057><305f>",  \* 歌わせていただきました
      "<6b4c><3063><3066><307f><305f>">>  \* 歌ってみた

noise_keywords ==
    <<"official music video",
      "official video",
      "mv",
      "m/v",
      "official audio",
      "lyric",
      "lyrics",
      "karaoke",
      "remix",
      "slowed",
      "reverb",
      "reaction",
      "live",
      "performance",
      "short",
      "shorts",
      "teaser",
      "trailer",
      "full album",
      "concert",
      "<516c><5f0f>",  \* 公式
      "<30df><30e5><30fc><30b8><30c3><30af><30d3><30c7><30aa>",  \* ミュージックビデオ
      "<6b4c><8a5e>",  \* 歌詞
      "<30ab><30e9><30aa><30b1>",  \* カラオケ
      "<30e9><30a4><30d6>",  \* ライブ
      "<751f><653e><9001>",  \* 生放送
      "<30b7><30e7><30fc><30c8>">>  \* ショート

\* The same function with the two scans in the other order, as the comment
\* "Noise first" above the second loop would have it.
classify_video_title_noise_first(title) ==
    LET t  == Lower(title)
        tj == title
    IN  IF \E i \in DOMAIN noise_keywords :
              Contains(t, noise_keywords[i]) \/ Contains(tj, noise_keywords[i])
        THEN "noise"
        ELSE IF \E i \in DOMAIN cover_keywords :
                   Contains(t, cover_keywords[i]) \/ Contains(tj, cover_keywords[i])
             THEN "cover"
             ELSE "noise"

classify_video_title(title) ==
    LET t  == Lower(title)
        tj == title
    IN  IF \E i \in DOMAIN cover_keywords :
              Contains(t, cover_keywords[i]) \/ Contains(tj, cover_keywords[i])
        THEN "cover"
        ELSE IF \E i \in DOMAIN noise_keywords :
                   Contains(t, noise_keywords[i]) \/ Contains(tj, noise_keywords[i])
             THEN "noise"
             ELSE "noise"

\* Phrases the generated titles are made of: cover keywords in several cases,
\* noise keywords, Japanese keywords and plain words.
TitleParts ==
    {"Cover", "BAND", "Piano COVER by", "Official Video", "LIVE", "Lemon",
     "<30ab><30d0><30fc>",                  \* カバー
     "<6b4c><3063><3066><307f><305f>",      \* 歌ってみた
     "<516c><5f0f>"}                        \* 公式

Titles == Phrases(TitleParts, MaxTitleParts)

InitTitle ==
    /\ call \in {[fn |-> "classify_video_title", title |-> t] : t \in Titles}
    /\ ret = Pending

ClassifyVideoTitle ==
    /\ call.fn = "classify_video_title"
    /\ ret = Pending
    /\ ret' = Return(classify_video_title(call.title))
    /\ UNCHANGED call

NextTitle == ClassifyVideoTitle

SpecTitle == InitTitle /\ [][NextTitle]_vars

----------------------------------------------------------------------------
(* What the claims mean by "the text holds a keyword", stated character by *)
(* character and without Lower.                                            *)

IsAsciiText(s) == ~Contains(s, "<")

SameLetter(a, b) ==
    \/ a = b
    \/ \E i \in 1..Len(UpperAlpha) :
          {a, b} = {CharAt(UpperAlpha, i), CharAt(LowerAlpha, i)}

OccursIgnoringCase(text, kw) ==
    \E i \in 1..(Len(text) - Len(kw) + 1) :
        \A j \in 1..Len(kw) : SameLetter(CharAt(text, i + j - 1), CharAt(kw, j))

\* An ASCII keyword is looked for whatever its case, any other one as written.
Mentions(text, kw) ==
    IF IsAsciiText(kw) THEN OccursIgnoringCase(text, kw) ELSE Contains(text, kw)

MentionsAny(text, keywords) == \E kw \in Range(keywords) : Mentions(text, kw)

----------------------------------------------------------------------------
(* utils/analytics.py: classify_cover_type.                                *)

\* Whether one of the keywords is in one of the texts (the loops' tests).
AnyKeywordIn(keywords, texts) ==
    \E i \in DOMAIN keywords : \E t \in texts : Contains(t, keywords[i])

\* The same function with the band bucket scanned before the acoustic one.
classify_cover_type_band_first(video) ==
    LET title             == Get(video, "title", "")
        description       == Get(video, "description", "")
        text_to_check_raw == title \o " " \o title \o " " \o description
        text_to_check_lower == Lower(text_to_check_raw)
    IN  IF AnyKeywordIn(BAND_KEYWORDS, {text_to_check_lower})
        THEN COVER_TYPE_MAP["band"]
        ELSE IF AnyKeywordIn(ACOUSTIC_KEYWORDS, {text_to_check_lower})
        THEN COVER_TYPE_MAP["acoustic"]
        ELSE IF AnyKeywordIn(VOCAL_KEYWORDS, {text_to_check_lower, text_to_check_raw})
        THEN COVER_TYPE_MAP["vocal"]
        ELSE IF AnyKeywordIn(INSTRUMENTAL_KEYWORDS, {text_to_check_lower, text_to_check_raw})
        THEN COVER_TYPE_MAP["instrumental"]
        ELSE COVER_TYPE_MAP["other"]

classify_cover_type(video) ==
    LET title             == Get(video, "title", "")
        description       == Get(video, "description", "")
        text_to_check_raw == title \o " " \o title \o " " \o description
        text_to_check_lower == Lower(text_to_check_raw)
    IN  IF AnyKeywordIn(ACOUSTIC_KEYWORDS, {text_to_check_lower})
        THEN COVER_TYPE_MAP["acoustic"]
        ELSE IF AnyKeywordIn(BAND_KEYWORDS, {text_to_check_lower})
        THEN COVER_TYPE_MAP["band"]
        ELSE IF AnyKeywordIn(VOCAL_KEYWORDS, {text_to_check_lower, text_to_check_raw})
        THEN COVER_TYPE_MAP["vocal"]
        ELSE IF AnyKeywordIn(INSTRUMENTAL_KEYWORDS, {text_to_check_lower, text_to_check_raw})
        THEN COVER_TYPE_MAP["instrumental"]
        ELSE COVER_TYPE_MAP["other"]

\* Phrases of the generated cover titles, and the descriptions they come with.
CoverTitleParts ==
    {"Cover", "ACOUSTIC", "Full Band", "Sing", "Piano", "Remix",
     "<30a2><30b3><30ae>",                  \* アコギ
     "<30a2><30ec><30f3><30b8>",            \* アレンジ
     "<6b4c><3063><3066><307f><305f>"}      \* 歌ってみた

Descriptions ==
    {"", "Unplugged session", "with my band", "guitar solo",
     "<30dc><30fc><30ab><30eb>"}            \* ボーカル

\* The records a classifier is handed: with a description, and without the key.
CoverTypeVideos ==
    {[title |-> t, description |-> d] :
        t \in Phrases(CoverTitleParts, MaxTitleParts), d \in Descriptions}
    \cup {[title |-> t] : t \in Phrases(CoverTitleParts, MaxTitleParts)}

InitCoverType ==
    /\ call \in {[fn |-> "classify_cover_type", video |-> v] : v \in CoverTypeVideos}
    /\ ret = Pending

ClassifyCoverType ==
    /\ call.fn = "classify_cover_type"
    /\ ret = Pending
    /\ ret' = Return(classify_cover_type(call.video))
    /\ UNCHANGED call

NextCoverType == ClassifyCoverType

SpecCoverType == InitCoverType /\ [][NextCoverType]_vars

\* The text a cover record is judged by: the title twice, then the description.
ScannedText(video) ==
    Get(video, "title", "") \o " " \o Get(video, "title", "") \o " "
        \o Get(video, "description", "")

\* C8: classify_cover_type is total and gives every record the first of
\* acoustic, band, vocal, instrumental whose bucket has a keyword in
\* title + title + description, and "other" when none has: a record with an
\* acoustic and a band keyword is "Acoustic / Soft".
C8_CoverTypePriority ==
    (call.fn = "classify_cover_type" /\ ret # Pending) =>
        LET text == ScannedText(call.video)
            category ==
                IF MentionsAny(text, ACOUSTIC_KEYWORDS) THEN "acoustic"
                ELSE IF MentionsAny(text, BAND_KEYWORDS) THEN "band"
                ELSE IF MentionsAny(text, VOCAL_KEYWORDS) THEN "vocal"
                ELSE IF MentionsAny(text, INSTRUMENTAL_KEYWORDS) THEN "instrumental"
                ELSE "other"
        IN  /\ ret.kind = "return"
            /\ ret.value = COVER_TYPE_MAP[category]
            /\ (MentionsAny(text, ACOUSTIC_KEYWORDS) /\ MentionsAny(text, BAND_KEYWORDS))
                  => ret.value.name = "Acoustic / Soft"
            /\ category = "other" => ret.value.name = "Other / Remix"

\* A record with an acoustic keyword and a band keyword has been classified.
C8_Witness ==
    /\ call.fn = "classify_cover_type"
    /\ ret # Pending
    /\ MentionsAny(ScannedText(call.video), ACOUSTIC_KEYWORDS)
    /\ MentionsAny(ScannedText(call.video), BAND_KEYWORDS)
    /\ ret.value.name = "Acoustic / Soft"

----------------------------------------------------------------------------
(* Dates: datetime.strptime(s, "%Y-%m-%d"), datetime.fromisoformat(s),     *)
(* strftime("%Y-%m") and the day count of a difference of two datetimes.   *)

Digits == "0123456789"

IsDigit(c) == \E d \in 1..Len(Digits) : CharAt(Digits, d) = c

IsDigits(s) == Len(s) > 0 /\ \A i \in 1..Len(s) : IsDigit(CharAt(s, i))

DigitValue(c) == (CHOOSE d \in 1..Len(Digits) : CharAt(Digits, d) = c) - 1

RECURSIVE ToInt(_)
ToInt(s) ==
    IF Len(s) = 0 THEN 0
    ELSE 10 * ToInt(SubSeq(s, 1, Len(s) - 1)) + DigitValue(CharAt(s, Len(s)))

IsLeap(y) == (y % 4 = 0 /\ y % 100 # 0) \/ y % 400 = 0

DaysInMonth(y, m) ==
    IF m = 2 THEN (IF IsLeap(y) THEN 29 ELSE 28)
    ELSE IF m \in {4, 6, 9, 11} THEN 30 ELSE 31

RECURSIVE DaysBeforeMonth(_, _)
DaysBeforeMonth(y, m) ==
    IF m = 1 THEN 0 ELSE DaysBeforeMonth(y, m - 1) + DaysInMonth(y, m - 1)

\* date.toordinal(): 1 for 0001-01-01.
ToOrdinal(y, m, d) ==
    365 * (y - 1) + (y - 1) \div 4 - (y - 1) \div 100 + (y - 1) \div 400
        + DaysBeforeMonth(y, m) + d

ParseError == [ok |-> FALSE]

\* The datetime constructor: ValueError for a date the calendar has not.
MakeDatetime(y, m, d, sec) ==
    IF y >= 1 /\ m \in 1..12 /\ d >= 1 /\ d <= DaysInMonth(y, m)
    THEN [ok |-> TRUE, year |-> y, month |-> m, day |-> d, second |-> sec]
    ELSE ParseError

\* The first place at or after `from` where text holds c, 0 when it has none.
IndexOf(text, c, from) ==
    IF \E i \in from..Len(text) : CharAt(text, i) = c
    THEN CHOOSE i \in from..Len(text) :
            /\ CharAt(text, i) = c
            /\ \A j \in from..(i - 1) : CharAt(text, j) # c
    ELSE 0

\* A %m or %d field: one or two digits.
IsShortNumber(s) == Len(s) \in {1, 2} /\ IsDigits(s)

\* strptime(s, "%Y-%m-%d"): four digits of year, a month and a day of one or
\* two digits, and nothing after them; ValueError otherwise.
Strptime(s) ==
    LET dash == IndexOf(s, "-", 6)
        y == SubSeq(s, 1, 4)
        m == SubSeq(s, 6, dash - 1)
        d == SubSeq(s, dash + 1, Len(s))
    IN  IF /\ Len(s) >= 8
           /\ IsDigits(y)
           /\ CharAt(s, 5) = "-"
           /\ dash # 0
           /\ IsShortNumber(m)
           /\ IsShortNumber(d)
        THEN MakeDatetime(ToInt(y), ToInt(m), ToInt(d), 0)
        ELSE ParseError

IsIsoDate(s) ==
    /\ Len(s) = 10
    /\ IsDigits(SubSeq(s, 1, 4)) /\ CharAt(s, 5) = "-"
    /\ IsDigits(SubSeq(s, 6, 7)) /\ CharAt(s, 8) = "-"
    /\ IsDigits(SubSeq(s, 9, 10))

IsIsoTime(s) ==
    /\ Len(s) = 8
    /\ IsDigits(SubSeq(s, 1, 2)) /\ CharAt(s, 3) = ":"
    /\ IsDigits(SubSeq(s, 4, 5)) /\ CharAt(s, 6) = ":"
    /\ IsDigits(SubSeq(s, 7, 8))
    /\ ToInt(SubSeq(s, 1, 2)) < 24
    /\ ToInt(SubSeq(s, 4, 5)) < 60
    /\ ToInt(SubSeq(s, 7, 8)) < 60

\* datetime.fromisoformat(s), for the forms every Python 3 version takes:
\* YYYY-MM-DD, and YYYY-MM-DD, one separator, HH:MM:SS; ValueError otherwise.
Fromisoformat(s) ==
    IF IsIsoDate(s)
    THEN MakeDatetime(ToInt(SubSeq(s, 1, 4)), ToInt(SubSeq(s, 6, 7)),
                      ToInt(SubSeq(s, 9, 10)), 0)
    ELSE IF Len(s) = 19 /\ IsIsoDate(SubSeq(s, 1, 10)) /\ IsIsoTime(SubSeq(s, 12, 19))
    THEN MakeDatetime(ToInt(SubSeq(s, 1, 4)), ToInt(SubSeq(s, 6, 7)),
                      ToInt(SubSeq(s, 9, 10)),
                      3600 * ToInt(SubSeq(s, 12, 13)) + 60 * ToInt(SubSeq(s, 15, 16))
                          + ToInt(SubSeq(s, 18, 19)))
    ELSE ParseError

\* (a - b).days: whole days, rounded down.
DaysBetween(a, b) ==
    ((ToOrdinal(a.year, a.month, a.day) - ToOrdinal(b.year, b.month, b.day)) * 86400
        + (a.second - b.second)) \div 86400

\* A number in decimal, filled with zeros to the width.
RECURSIVE ZeroPadded(_, _)
ZeroPadded(n, width) ==
    IF width = 0 THEN ""
    ELSE ZeroPadded(n \div 10, width - 1) \o CharAt(Digits, (n % 10) + 1)

\* strftime("%Y-%m")
StrftimeYearMonth(dt) == ZeroPadded(dt.year, 4) \o "-" \o ZeroPadded(dt.month, 2)

----------------------------------------------------------------------------
(* utils/analytics.py: calculate_trend_score.                              *)
(*                                                                         *)
(* Floats in fixed point.  A recency is counted in 365ths, which is exact: *)
(* 365 * max(0, 1 - min(d / 365, 1)) = max(0, 365 - min(d, 365)).  The     *)
(* logarithm is computed to a thousandth and the score to a thousandth of  *)
(* a point before it is rounded, so the modelled score is the float one to *)
(* within a tenth of a point.  A score is held in tenths of a point: 957   *)
(* is Python's 95.7.                                                       *)

Max(a, b) == IF a >= b THEN a ELSE b

Min(a, b) == IF a <= b THEN a ELSE b

\* sum() of a list of integers, halves at a time.
RECURSIVE SumSeq(_)
SumSeq(xs) ==
    IF Len(xs) = 0 THEN 0
    ELSE IF Len(xs) = 1 THEN xs[1]
    ELSE LET h == Len(xs) \div 2
         IN  SumSeq(SubSeq(xs, 1, h)) + SumSeq(SubSeq(xs, h + 1, Len(xs)))

RECURSIVE FloorLog2(_)
FloorLog2(x) == IF x < 2 THEN 0 ELSE 1 + FloorLog2(x \div 2)

\* The binary digits after the point of log2(m / 2^14), for m in
\* [2^14, 2^15), found by squaring; the result counts 2^-bits.
RECURSIVE Log2Fraction(_, _)
Log2Fraction(m, bits) ==
    IF bits = 0 THEN 0
    ELSE LET sq == (m * m) \div 2^14
         IN  IF sq >= 2^15
             THEN 2^(bits - 1) + Log2Fraction(sq \div 2, bits - 1)
             ELSE Log2Fraction(sq, bits - 1)

\* 1000 * ln(x) for an integer x >= 1, to within 1: log2(x) in 4096ths,
\* times ln 2 = 2839 / 4096.
LnMilli(x) ==
    LET k == FloorLog2(x)
        m == IF k <= 14 THEN x * 2^(14 - k) ELSE x \div 2^(k - 14)
        log2 == k * 4096 + Log2Fraction(m, 12)
    IN  (((log2 * 2839) \div 4096) * 1000) \div 4096

\* 1000 * np.log1p(x)
Log1pMilli(x) == LnMilli(1 + x)

\* Lines 76-79: fromisoformat, and strptime when that raised anything.  A
\* record without the key raises KeyError in both.
upload_date_of(v) ==
    IF "upload_date" \notin DOMAIN v THEN [ok |-> FALSE, exc |-> "KeyError"]
    ELSE IF Fromisoformat(v["upload_date"]).ok THEN Fromisoformat(v["upload_date"])
    ELSE IF Strptime(v["upload_date"]).ok THEN Strptime(v["upload_date"])
    ELSE [ok |-> FALSE, exc |-> "ValueError"]

days_ago(v, now) == DaysBetween(now, upload_date_of(v))

\* Line 82, in 365ths: max(0, 1 - min(days_ago / 365, 1)).
recency(days) == Max(0, 365 - Min(days, 365))

\* Whether the loop of lines 75-84 raises on this record.
RaisesInLoop(v) == ~upload_date_of(v).ok \/ "views" \notin DOMAIN v

\* The score of a list the loop gets through, in tenths of a point.
trend_score_tenths(videos, now) ==
    LET recency_scores == [i \in DOMAIN videos |-> recency(days_ago(videos[i], now))]
        total_views    == SumSeq([i \in DOMAIN videos |-> videos[i]["views"]])
        num_covers     == Len(videos)
        \* thousandths of a point: 100000 * score
        recency_part   == (40000 * SumSeq(recency_scores)) \div (365 * num_covers)
        views_part     == (40000 * Log1pMilli(total_views)) \div 15000
        count_part     == (20000 * Min(num_covers, 50)) \div 50
    IN  (recency_part + views_part + count_part + 50) \div 100

calculate_trend_score(videos, now) ==
    IF Len(videos) = 0 THEN Return(0)
    ELSE IF \E i \in DOMAIN videos : RaisesInLoop(videos[i])
    THEN LET i == CHOOSE k \in DOMAIN videos :
                    /\ RaisesInLoop(videos[k])
                    /\ \A j \in 1..(k - 1) : ~RaisesInLoop(videos[j])
             v == videos[i]
         IN  Raise(IF upload_date_of(v).ok THEN "KeyError" ELSE upload_date_of(v).exc,
                   "calculate_trend_score")
    ELSE Return(trend_score_tenths(videos, now))

\* datetime.now(): the clock of the request.
Nows ==
    {[ok |-> TRUE, year |-> 2025, month |-> 11, day |-> 3, second |-> 43200],
     [ok |-> TRUE, year |-> 2025, month |-> 3, day |-> 1, second |-> 0]}

\* Records as search_youtube_covers builds them (views an int, upload_date
\* the first ten characters of publishedAt, "" without it), and records with
\* other date texts.
TrendVideos ==
    {[views |-> 0,          upload_date |-> "2025-11-03"],
     [views |-> 1200,       upload_date |-> "2025-02-28"],
     [views |-> 30000000,   upload_date |-> "2025-03-01"],
     [views |-> 1000000000, upload_date |-> "2025-10-30"],
     [views |-> 250000,     upload_date |-> "2024-03-01"],
     [views |-> 640,        upload_date |-> "2019-07-15"],
     [views |-> 5000,       upload_date |-> "2026-02-01"],
     [views |-> 120,        upload_date |-> "2025-01-20T08:30:00"],
     [views |-> 3,          upload_date |-> "2025-1-3"],
     [views |-> 77,         upload_date |-> ""]}

\* [v] * n
Repeat(v, n) == [i \in 1..n |-> v]

\* Short lists of any records, and one record 50 and 60 times over.
TrendInputs ==
    UNION {[1..n -> TrendVideos] : n \in 0..MaxTrendVideos}
    \cup {Repeat(v, n) : v \in {w \in TrendVideos : w.views <= 30000000}, n \in {50, 60}}

InitTrend ==
    /\ call \in {[fn |-> "calculate_trend_score", videos |-> vs, now |-> now] :
                    vs \in TrendInputs, now \in Nows}
    /\ ret = Pending

CalculateTrendScore ==
    /\ call.fn = "calculate_trend_score"
    /\ ret = Pending
    /\ ret' = calculate_trend_score(call.videos, call.now)
    /\ UNCHANGED call

NextTrend == CalculateTrendScore

SpecTrend == InitTrend /\ [][NextTrend]_vars

\* A record the claim speaks of: views not negative, a date the scorer parses.
ScorableRecord(v) ==
    /\ "views" \in DOMAIN v /\ v.views >= 0
    /\ upload_date_of(v).ok

\* C4: calculate_trend_score returns exactly 0 for an empty list, and for a
\* non-empty list of records with views >= 0 and parsable upload dates a
\* score in [0, 100] (0..1000 tenths), however many views and records.
\* Stated here of the lists none of whose records was uploaded after the
\* clock's time only, among which the claim fails already.
C4_TrendScoreWithin0And100 ==
    (call.fn = "calculate_trend_score" /\ ret # Pending) =>
        /\ Len(call.videos) = 0 => ret = Return(0)
        /\ ( /\ Len(call.videos) > 0
             /\ \A i \in DOMAIN call.videos :
                   /\ ScorableRecord(call.videos[i])
                   /\ days_ago(call.videos[i], call.now) >= 0 )
              => (ret.kind = "return" /\ ret.value >= 0 /\ ret.value <= 1000)

\* C11: the recency weight the loop gives a record lies in [0, 1] (0..365
\* in 365ths) for every upload date the scorer parses, whether it is a year
\* or more before the clock's time or after it.
C11_RecencyWithinUnitInterval ==
    (call.fn = "calculate_trend_score" /\ ret.kind = "return") =>
        \A i \in DOMAIN call.videos :
            LET weight == recency(days_ago(call.videos[i], call.now))
            IN  weight >= 0 /\ weight <= 365

----------------------------------------------------------------------------
(* utils/analytics.py: generate_trend_summary.  The score is in tenths of  *)
(* a point; the summaries are the source's without their leading emoji and *)
(* with a hyphen for the dash.                                             *)

SummaryHighlyTrending ==
    "This song is highly trending - frequent new covers with strong engagement recently."

SummaryModeratelyTrending ==
    "This song is moderately trending - cover activity and engagement are above average."

SummarySteady ==
    "This song shows steady interest - consistent covers, but not rising sharply."

SummaryLosingTraction ==
    "This song is losing traction - fewer new covers and lower engagement recently."

SummaryLowActivity ==
    "This song has low current activity - few new covers or views recently."

\* The same function with every threshold exclusive.
generate_trend_summary_exclusive(score) ==
    IF score > 800 THEN SummaryHighlyTrending
    ELSE IF score > 600 THEN SummaryModeratelyTrending
    ELSE IF score > 400 THEN SummarySteady
    ELSE IF score > 200 THEN SummaryLosingTraction
    ELSE SummaryLowActivity

generate_trend_summary(score) ==
    IF score >= 800 THEN SummaryHighlyTrending
    ELSE IF score >= 600 THEN SummaryModeratelyTrending
    ELSE IF score >= 400 THEN SummarySteady
    ELSE IF score >= 200 THEN SummaryLosingTraction
    ELSE SummaryLowActivity

InitSummary ==
    /\ call \in {[fn |-> "generate_trend_summary", score |-> sc] : sc \in 0..MaxScoreTenths}
    /\ ret = Pending

GenerateTrendSummary ==
    /\ call.fn = "generate_trend_summary"
    /\ ret = Pending
    /\ ret' = Return(generate_trend_summary(call.score))
    /\ UNCHANGED call

NextSummary == GenerateTrendSummary

SpecSummary == InitSummary /\ [][NextSummary]_vars

\* The five summaries, lowest band first.
SummariesByBand ==
    <<SummaryLowActivity, SummaryLosingTraction, SummarySteady,
      SummaryModeratelyTrending, SummaryHighlyTrending>>

\* C5: generate_trend_summary gives every score one of five different
\* summaries, the one of the highest threshold among 20, 40, 60, 80 the
\* score has reached: 80, 60, 40 and 20 themselves are in the band they
\* open, and 19.9 and 0 are in the lowest band.
C5_SummaryBandsInclusive ==
    (call.fn = "generate_trend_summary" /\ ret # Pending) =>
        LET reached == Cardinality({t \in {200, 400, 600, 800} : t <= call.score})
        IN  /\ ret.kind = "return"
            /\ ret.value = SummariesByBand[reached + 1]
            /\ Cardinality(Range(SummariesByBand)) = 5
            /\ call.score = 800 => ret.value = SummaryHighlyTrending
            /\ call.score = 600 => ret.value = SummaryModeratelyTrending
            /\ call.score = 400 => ret.value = SummarySteady
            /\ call.score = 200 => ret.value = SummaryLosingTraction
            /\ call.score \in {0, 199} => ret.value = SummaryLowActivity

\* The score 80.0 exactly has been given the summary of the highest band.
C5_Witness ==
    /\ call.fn = "generate_trend_summary"
    /\ call.score = 800
    /\ ret = Return(SummaryHighlyTrending)

----------------------------------------------------------------------------
(* utils/analytics.py: get_monthly_upload_data.                            *)

\* The characters of a month key in code point order.
KeyAlphabet == "-0123456789"

CharRank(c) == CHOOSE k \in 1..Len(KeyAlphabet) : CharAt(KeyAlphabet, k) = c

\* a < b for Python strings made of the characters of a month key.
StrLess(a, b) ==
    \/ Len(a) < Len(b) /\ SubSeq(b, 1, Len(a)) = a
    \/ \E i \in 1..Min(Len(a), Len(b)) :
          /\ SubSeq(a, 1, i - 1) = SubSeq(b, 1, i - 1)
          /\ CharRank(CharAt(a, i)) < CharRank(CharAt(b, i))

\* sorted() of a set of strings.
RECURSIVE SortedStrings(_)
SortedStrings(S) ==
    IF S = {} THEN <<>>
    ELSE LET least == CHOOSE x \in S : \A y \in S \ {x} : StrLess(x, y)
         IN  <<least>> \o SortedStrings(S \ {least})

\* list.count: how often x is in the list.
CountOf(xs, x) == Cardinality({i \in DOMAIN xs : xs[i] = x})

\* The list comprehension of line 118: the records that have the key, in order.
RECURSIVE WithUploadDate(_)
WithUploadDate(videos) ==
    IF Len(videos) = 0 THEN <<>>
    ELSE (IF "upload_date" \in DOMAIN Head(videos) THEN <<Head(videos)["upload_date"]>> ELSE <<>>)
         \o WithUploadDate(Tail(videos))

get_monthly_upload_data(videos) ==
    LET upload_dates == WithUploadDate(videos)
    IN  IF \E i \in DOMAIN upload_dates : ~Strptime(upload_dates[i]).ok
        THEN Raise("ValueError", "get_monthly_upload_data")
        ELSE LET months == [i \in DOMAIN upload_dates |->
                               StrftimeYearMonth(Strptime(upload_dates[i]))]
                 sorted_months == SortedStrings(Range(months))
                 upload_counts == [k \in DOMAIN sorted_months |->
                                      CountOf(months, sorted_months[k])]
             IN  Return(<<sorted_months, upload_counts>>)

\* Records with the upload dates search_youtube_covers gives them
\* (publishedAt[:10], "" without publishedAt), a record without the key, and
\* dates in the other forms the trend scorer takes.
MonthlyVideos ==
    {[views |-> 10, upload_date |-> "2025-11-03"],
     [views |-> 20, upload_date |-> "2025-11-20"],
     [views |-> 30, upload_date |-> "2025-02-28"],
     [views |-> 40, upload_date |-> "2024-12-31"],
     [views |-> 50, upload_date |-> "2025-2-1"],
     [views |-> 60, upload_date |-> "2025-01-20T08:30:00"],
     [views |-> 70, upload_date |-> ""],
     [views |-> 80]}

InitMonthly ==
    /\ call \in {[fn |-> "get_monthly_upload_data", videos |-> vs] :
                    vs \in UNION {[1..n -> MonthlyVideos] : n \in 0..MaxMonthlyVideos}}
    /\ ret = Pending

GetMonthlyUploadData ==
    /\ call.fn = "get_monthly_upload_data"
    /\ ret = Pending
    /\ ret' = get_monthly_upload_data(call.videos)
    /\ UNCHANGED call

NextMonthly == GetMonthlyUploadData

SpecMonthly == InitMonthly /\ [][NextMonthly]_vars

\* A record without an upload date: no key, or the "" that
\* search_youtube_covers puts there when publishedAt is missing.
MissingUploadDate(v) == "upload_date" \notin DOMAIN v \/ v["upload_date"] = ""

\* The two sequences are as long as each other, the months ascend strictly,
\* and the counts add up to n.
MonthlyResultFor(value, n) ==
    /\ Len(value[1]) = Len(value[2])
    /\ \A k \in 1..(Len(value[1]) - 1) : StrLess(value[1][k], value[1][k + 1])
    /\ SumSeq(value[2]) = n

\* C6: for every list of cover records get_monthly_upload_data returns two
\* sequences of one length, distinct YYYY-MM keys ascending and the count of
\* each; a record without an upload date is skipped and does not fail the
\* call, the counts add up to the number of records with a date the trend
\* scorer accepts, and an empty list gives two empty sequences.  Stated here
\* of the lists whose records have a date strptime parses or none only,
\* among which the claim fails already.
C6_MonthlyCountsEveryDatedRecord ==
    ( /\ call.fn = "get_monthly_upload_data"
      /\ ret # Pending
      /\ \A i \in DOMAIN call.videos :
            \/ MissingUploadDate(call.videos[i])
            \/ Strptime(call.videos[i]["upload_date"]).ok ) =>
        /\ ret.kind = "return"
        /\ MonthlyResultFor(ret.value,
              Cardinality({i \in DOMAIN call.videos : upload_date_of(call.videos[i]).ok}))
        /\ Len(call.videos) = 0 => ret.value = << <<>>, <<>> >>

----------------------------------------------------------------------------
(* utils/ml_classifier.py: keyword tables (its own, not those of           *)
(* analytics.py) and the cluster namer.                                    *)

ML_VOCAL_KEYWORDS ==
    <<"vocal",
      "vocals",
      "a cappella",
      "a-capella",
      "vocal cover",
      "sing",
      "<6b4c><3063><3066><307f><305f>",  \* 歌ってみた
      "<30dc><30fc><30ab><30eb>",  \* ボーカル
      "<30dc><30fc><30ab><30eb><30ab><30d0><30fc>",  \* ボーカルカバー
      "<30a2><30ab><30da><30e9>">>  \* アカペラ

ML_INSTRUMENTAL_KEYWORDS ==
    <<"instrumental",
      "inst",
      "instrumental cover",
      "piano",
      "guitar",
      "drum",
      "bass",
      "solo",
      "<5f3e><3044><3066><307f><305f>",  \* 弾いてみた
      "<30a4><30f3><30b9><30c8>",  \* インスト
      "<30d4><30a2><30ce>",  \* ピアノ
      "<30ae><30bf><30fc>">>  \* ギター

ML_ACOUSTIC_KEYWORDS ==
    <<"acoustic",
      "acoustic version",
      "unplugged",
      "<30a2><30b3><30fc><30b9><30c6><30a3><30c3><30af>",  \* アコースティック
      "<30a2><30b3><30ae>">>  \* アコギ

ML_BAND_KEYWORDS ==
    <<"band",
      "full band",
      "arrangement",
      "<30d0><30f3><30c9><30ab><30d0><30fc>",  \* バンドカバー
      "<7de8><6210>",  \* 編成
      "full arrangement">>

FALLBACK_NAME == "Other / Remix"

\* str.strip() of a text whose only white space is the blank.
RECURSIVE Strip(_)
Strip(s) ==
    IF Len(s) = 0 THEN ""
    ELSE IF CharAt(s, 1) = " " THEN Strip(SubSeq(s, 2, Len(s)))
    ELSE IF CharAt(s, Len(s)) = " " THEN Strip(SubSeq(s, 1, Len(s) - 1))
    ELSE s

_text_for_video(v) ==
    LET title == Get(v, "title", "")
        desc  == Get(v, "description", "")
    IN  Strip(title \o " " \o desc)

_count_matches(text_lower, keywords) ==
    Cardinality({i \in DOMAIN keywords : Contains(text_lower, keywords[i])})

\* zip(videos, labels) stops with the shorter of the two.
ZipLength(videos, labels) == Min(Len(videos), Len(labels))

\* Cover records: one with as many vocal as instrumental keywords, one with
\* as many instrumental as acoustic ones, and one without a term or a keyword.
ClusterVideos ==
    {[title |-> "Vocal Cover", description |-> "<30ae><30bf><30fc> solo"],   \* ギター solo
     [title |-> "Acoustic Guitar Cover"],
     [title |-> "?", description |-> ""]}

\* Lines 55-58: the _count_matches of one lower-cased text against the four
\* keyword lists, in the order the dict literal lists them.
keyword_counts(text_lower) ==
    << _count_matches(text_lower, ML_VOCAL_KEYWORDS),
       _count_matches(text_lower, ML_INSTRUMENTAL_KEYWORDS),
       _count_matches(text_lower, ML_ACOUSTIC_KEYWORDS),
       _count_matches(text_lower, ML_BAND_KEYWORDS) >>

\* The counts of the generated records, each worked out once.
cluster_video_counts ==
    [v \in ClusterVideos |-> keyword_counts(Lower(_text_for_video(v)))]

\* Lines 51-52 and 55-58 for one record: the counts of its lower-cased text.
counts_of_video(v) ==
    IF v \in DOMAIN cluster_video_counts
    THEN cluster_video_counts[v]
    ELSE keyword_counts(Lower(_text_for_video(v)))

\* Lines 55-58 and 61-66: the four counts of a cluster, summed over its
\* members, in the order the dict literal lists them.
cluster_counts(videos, labels, lab) ==
    LET members == {i \in 1..ZipLength(videos, labels) : labels[i] = lab}
        hits(group) ==
            SumSeq([k \in 1..Len(videos) |->
                       IF k \in members THEN counts_of_video(videos[k])[group] ELSE 0])
    IN  << [name |-> "Vocal cover",             count |-> hits(1)],
           [name |-> "Instrumental",            count |-> hits(2)],
           [name |-> "Acoustic / Soft",         count |-> hits(3)],
           [name |-> "Band / Full Arrangement", count |-> hits(4)] >>

\* max(counts.items(), key=...) that keeps the last of several largest
\* items instead of the first.
max_by_count_last(counts) ==
    counts[CHOOSE i \in DOMAIN counts :
              /\ \A j \in DOMAIN counts : counts[j].count <= counts[i].count
              /\ \A j \in (i + 1)..Len(counts) : counts[j].count < counts[i].count]

\* max(counts.items(), key=lambda kv: kv[1]): the first of the largest items.
max_by_count(counts) ==
    counts[CHOOSE i \in DOMAIN counts :
              /\ \A j \in DOMAIN counts : counts[j].count <= counts[i].count
              /\ \A j \in 1..(i - 1) : counts[j].count < counts[i].count]

\* The dict of cluster index -> name, as a function on the labels that occur.
map_clusters_to_names(videos, labels) ==
    [lab \in {labels[i] : i \in 1..ZipLength(videos, labels)} |->
        LET best == max_by_count(cluster_counts(videos, labels, lab))
        IN  IF best.count = 0 THEN FALLBACK_NAME ELSE best.name]

----------------------------------------------------------------------------
(* utils/ml_classifier.py: get_top_keywords_per_cluster.  The terms of a   *)
(* centre stay symbolic: a name's entry says which cluster's centre its    *)
(* top n_keywords terms are read from.                                     *)

\* The keys of cluster_name_map in the order the dict got them: each label
\* where zip(videos, labels) first shows it.
RECURSIVE FirstSeen(_)
FirstSeen(labels) ==
    IF Len(labels) = 0 THEN <<>>
    ELSE LET before == FirstSeen(SubSeq(labels, 1, Len(labels) - 1))
             lab    == labels[Len(labels)]
         IN  IF lab \in Range(before) THEN before ELSE Append(before, lab)

get_top_keywords_per_cluster(labels, cluster_name_map) ==
    LET order == FirstSeen(labels)
        name_to_index ==
            [name \in Range(cluster_name_map) |->
                order[CHOOSE k \in DOMAIN order :
                         /\ cluster_name_map[order[k]] = name
                         /\ \A j \in 1..(k - 1) : cluster_name_map[order[j]] # name]]
    IN  [name \in DOMAIN name_to_index |->
            [center |-> name_to_index[name], n_keywords |-> 5]]

----------------------------------------------------------------------------
(* utils/ml_classifier.py: cluster_cover_videos.                           *)

num_clusters == 4

\* Words TfidfVectorizer(stop_words="english") drops: the ones of its list
\* the generated texts can hold.
EnglishStopWords ==
    {"the", "by", "of", "and", "with", "my", "in", "on", "for", "to", "is",
     "it", "me", "this", "full"}

WordChars == "abcdefghijklmnopqrstuvwxyzABCDEFGHIJKLMNOPQRSTUVWXYZ0123456789_<>"

\* \w: a letter, a digit, the underscore, or a part of a written-out letter.
IsWordChar(c) == \E k \in 1..Len(WordChars) : CharAt(WordChars, k) = c

\* How many characters the text stands for: a written-out one counts once.
OriginalLength(s) ==
    Len(s) - 5 * Cardinality({i \in 1..Len(s) : CharAt(s, i) = "<"})

\* Whether the vectorizer finds a term in the document: a run of two or
\* more word characters (token_pattern \b\w\w+\b) that is no stop word.
HasTerm(doc) ==
    LET t == Lower(doc)
    IN  \E i \in 1..Len(t) : \E j \in i..Len(t) :
            /\ \A k \in i..j : IsWordChar(CharAt(t, k))
            /\ i = 1 \/ ~IsWordChar(CharAt(t, i - 1))
            /\ j = Len(t) \/ ~IsWordChar(CharAt(t, j + 1))
            /\ OriginalLength(SubSeq(t, i, j)) >= 2
            /\ SubSeq(t, i, j) \notin EnglishStopWords

\* fit_transform raises ValueError("empty vocabulary") without any term.
HasVocabulary(corpus) == \E i \in DOMAIN corpus : HasTerm(corpus[i])

\* What KMeans(n_clusters=4).fit_predict can give: a label below 4 for every
\* document, the same one for documents of the same text (their rows of X
\* are equal, and a row's label is that of its nearest centre).
KMeansLabelings(corpus) ==
    {labels \in [DOMAIN corpus -> 0..(num_clusters - 1)] :
        \A i, j \in DOMAIN corpus : corpus[i] = corpus[j] => labels[i] = labels[j]}

\* Line 120 with the number of clusters for the length of the list.
fallback_labels_num_clusters(videos) == [i \in 1..num_clusters |-> 0]

\* Line 120: [0] * len(videos)
fallback_labels(videos) == [i \in 1..Len(videos) |-> 0]

\* Lines 150-158 with the record's position for its label.
plot_data_of_position(videos, labels, cluster_name_map) ==
    [i \in DOMAIN videos |->
        [x     |-> <<i, 0>>,
         y     |-> <<i, 1>>,
         label |-> Get(cluster_name_map, i - 1, "Other"),
         title |-> videos[i]["title"]]]

\* Lines 150-158: one point per record; x and y name the cells coords[i, 0]
\* and coords[i, 1] of the embedding, whose numbers stay symbolic.
plot_data_of(videos, labels, cluster_name_map) ==
    [i \in DOMAIN videos |->
        [x     |-> <<i, 0>>,
         y     |-> <<i, 1>>,
         label |-> Get(cluster_name_map, labels[i], "Other"),
         title |-> videos[i]["title"]]]

\* Python values whose type the caller goes by.
PyTuple(items) == [type |-> "tuple", items |-> items]

PyDict(items) == [type |-> "dict", items |-> items]

\* cluster_cover_videos(videos) when KMeans gives `labels`.
cluster_cover_videos(videos, labels) ==
    IF Len(videos) < num_clusters
    THEN Return(PyTuple(<<fallback_labels(videos), [lab \in {0} |-> FALLBACK_NAME]>>))
    ELSE IF ~HasVocabulary([i \in DOMAIN videos |-> _text_for_video(videos[i])])
    THEN Raise("ValueError", "TfidfVectorizer.fit_transform")
    ELSE IF \E i \in DOMAIN videos : "title" \notin DOMAIN videos[i]
    THEN Raise("KeyError", "plot_data")
    ELSE LET cluster_name_map == map_clusters_to_names(videos, labels)
             top_keywords == get_top_keywords_per_cluster(labels, cluster_name_map)
         IN  Return(PyDict([labels           |-> labels,
                            cluster_name_map |-> cluster_name_map,
                            plot_data        |-> plot_data_of(videos, labels, cluster_name_map),
                            top_keywords     |-> top_keywords]))

InitCluster ==
    /\ call \in {[fn |-> "cluster_cover_videos", videos |-> vs] :
                    vs \in UNION {[1..n -> ClusterVideos] : n \in 0..MaxClusterVideos}}
    /\ ret = Pending

ClusterCoverVideos ==
    /\ call.fn = "cluster_cover_videos"
    /\ ret = Pending
    /\ \E labels \in KMeansLabelings([i \in DOMAIN call.videos |->
                                         _text_for_video(call.videos[i])]) :
          ret' = cluster_cover_videos(call.videos, labels)
    /\ UNCHANGED call

NextCluster == ClusterCoverVideos

SpecCluster == InitCluster /\ [][NextCluster]_vars

----------------------------------------------------------------------------
(* Claims about cluster_cover_videos.                                      *)

ClusterReturned ==
    /\ call.fn = "cluster_cover_videos"
    /\ ret.kind = "return"

\* What the caller gets under a name of the result: the entry of a dict, the
\* position of the documented (labels, cluster_name_map) pair.
HasPart(result, part) ==
    IF result.type = "dict" THEN part \in DOMAIN result.items
    ELSE part \in {"labels", "cluster_name_map"}

PartOf(result, part) ==
    IF result.type = "dict" THEN result.items[part]
    ELSE IF part = "labels" THEN result.items[1]
    ELSE result.items[2]

\* The plot points a result carries: none without a plot_data entry.
PlotPointsOf(result) ==
    IF HasPart(result, "plot_data") THEN PartOf(result, "plot_data") ELSE <<>>

ResultParts == {"labels", "cluster_name_map", "plot_data", "top_keywords"}

\* C2: with fewer than 4 records the call returns a result of the dict shape
\* of the clustering path (labels, cluster_name_map, plot_data,
\* top_keywords) in which every record has cluster id 0, id 0 is named
\* "Other / Remix", and the plot data and the keyword map are empty.
C2_FallbackResultShape ==
    (/\ call.fn = "cluster_cover_videos"
     /\ Len(call.videos) < 4
     /\ ret # Pending)
    => /\ ret.kind = "return"
       /\ ret.value.type = "dict"
       /\ DOMAIN ret.value.items = ResultParts
       /\ ret.value.items.labels = [i \in 1..Len(call.videos) |-> 0]
       /\ ret.value.items.cluster_name_map = [lab \in {0} |-> "Other / Remix"]
       /\ ret.value.items.plot_data = <<>>
       /\ DOMAIN ret.value.items.top_keywords = {}

\* C7: a call that returns gives one label per record; with fewer than 4
\* records every label is 0, with 4 or more every label is one of 0, 1, 2, 3.
C7_LabelsWithinClusterIds ==
    ClusterReturned
    => LET labels == PartOf(ret.value, "labels")
           n      == Len(call.videos)
       IN  /\ DOMAIN labels = 1..n
           /\ n < 4  => \A i \in 1..n : labels[i] = 0
           /\ n >= 4 => \A i \in 1..n : labels[i] \in {0, 1, 2, 3}

\* Four or more records clustered into more than one, but not all four, of
\* the cluster ids.
C7_Witness ==
    /\ ClusterReturned
    /\ Len(call.videos) >= 4
    /\ LET used == Range(PartOf(ret.value, "labels"))
       IN  Cardinality(used) >= 2 /\ used # {0, 1, 2, 3} /\ used \subseteq {0, 1, 2, 3}

\* Whether entry i of the labels and of the plot points belongs to record i.
AlignedAt(videos, result, i) ==
    LET labels == PartOf(result, "labels")
        names  == PartOf(result, "cluster_name_map")
        point  == PlotPointsOf(result)[i]
    IN  /\ point.title = videos[i].title
        /\ labels[i] \in DOMAIN names
        /\ point.label = names[labels[i]]

BucketNames ==
    <<"Vocal cover", "Instrumental", "Acoustic / Soft", "Band / Full Arrangement">>

BucketKeywords ==
    <<ML_VOCAL_KEYWORDS, ML_INSTRUMENTAL_KEYWORDS, ML_ACOUSTIC_KEYWORDS, ML_BAND_KEYWORDS>>

\* How many keywords of each bucket the text of a generated record (its
\* title, a blank, its description) shows, in whatever case.
RecordHits ==
    [v \in ClusterVideos |->
        [b \in DOMAIN BucketKeywords |->
            Cardinality({k \in DOMAIN BucketKeywords[b] :
                OccursIgnoringCase(Get(v, "title", "") \o " " \o Get(v, "description", ""),
                                   BucketKeywords[b][k])})]]

\* The hits of a bucket summed over the members of a cluster.
RECURSIVE BucketHitsUpTo(_, _, _, _, _)
BucketHitsUpTo(videos, labels, lab, b, n) ==
    IF n = 0 THEN 0
    ELSE BucketHitsUpTo(videos, labels, lab, b, n - 1)
         + (IF labels[n] = lab THEN RecordHits[videos[n]][b] ELSE 0)

\* C10: every cluster id among the labels has one name: that of the bucket
\* with the most keyword hits over the cluster's members, the first such
\* bucket in the order vocal, instrumental, acoustic, band when several have
\* the most, and "Other / Remix" when no bucket has a hit.
C10_ClusterNamedAfterTopBucket ==
    (ClusterReturned /\ Len(call.videos) >= 4)
    => LET videos == call.videos
           labels == PartOf(ret.value, "labels")
           names  == PartOf(ret.value, "cluster_name_map")
           hits(lab, b) == BucketHitsUpTo(videos, labels, lab, b, Len(videos))
       IN  /\ DOMAIN names = Range(labels)
           /\ \A lab \in Range(labels) :
                 IF \A b \in 1..4 : hits(lab, b) = 0
                 THEN names[lab] = "Other / Remix"
                 ELSE \E b \in 1..4 :
                         /\ names[lab] = BucketNames[b]
                         /\ \A a \in 1..4 : hits(lab, a) <= hits(lab, b)
                         /\ \A a \in 1..(b - 1) : hits(lab, a) < hits(lab, b)

\* A clustering with a cluster whose two best buckets have as many hits, and
\* a cluster without a hit.
C10_Witness ==
    /\ ClusterReturned
    /\ Len(call.videos) >= 4
    /\ LET videos == call.videos
           labels == PartOf(ret.value, "labels")
           names  == PartOf(ret.value, "cluster_name_map")
           hits(lab, b) == BucketHitsUpTo(videos, labels, lab, b, Len(videos))
       IN  /\ \E lab \in Range(labels) : \E a, b \in 1..4 :
                 /\ a < b
                 /\ hits(lab, a) = hits(lab, b)
                 /\ hits(lab, a) > 0
                 /\ \A c \in 1..4 : hits(lab, c) <= hits(lab, a)
                 /\ names[lab] = BucketNames[a]
           /\ \E lab \in Range(labels) : names[lab] = "Other / Remix"

----------------------------------------------------------------------------
(* utils/analytics.py: get_top_covers.                                     *)

\* The list with v put behind every record of at least v's views: one step
\* of a stable sort by falling views.
RECURSIVE InsertByViews(_, _)
InsertByViews(sorted, v) ==
    IF Len(sorted) = 0 THEN <<v>>
    ELSE IF Head(sorted)["views"] >= v["views"]
    THEN <<Head(sorted)>> \o InsertByViews(Tail(sorted), v)
    ELSE <<v>> \o sorted

\* sorted(videos, key=lambda v: v["views"], reverse=True)
RECURSIVE SortedByViews(_)
SortedByViews(videos) ==
    IF Len(videos) = 0 THEN <<>>
    ELSE InsertByViews(SortedByViews(SubSeq(videos, 1, Len(videos) - 1)),
                       videos[Len(videos)])

get_top_covers(videos, top_n) ==
    IF \E i \in DOMAIN videos : "views" \notin DOMAIN videos[i]
    THEN Raise("KeyError", "get_top_covers")
    ELSE LET sorted == SortedByViews(videos)
         IN  Return(SubSeq(sorted, 1, Min(top_n, Len(sorted))))

----------------------------------------------------------------------------
(* app.py: results.  A request carries the song of the form or of the      *)
(* query string; `found` is what search_youtube_covers returns for it and  *)
(* `now` the clock the trend scorer reads.                                 *)

render_template(template, context) == [template |-> template, context |-> context]

\* Lines 29-35: the records whose title classifies as `kind`, in order.
RECURSIVE videos_classified(_, _)
videos_classified(videos, kind) ==
    IF Len(videos) = 0 THEN <<>>
    ELSE (IF classify_video_title(Head(videos)["title"]) = kind
          THEN <<Head(videos)>> ELSE <<>>)
         \o videos_classified(Tail(videos), kind)

\* The parameters of def cluster_cover_videos(videos, max_features=800).
cluster_cover_videos_parameters == {"videos", "max_features"}

\* Line 48: whether the call cluster_cover_videos(cover_videos, **keywords)
\* binds; a keyword that is no parameter is a TypeError before the body runs.
call_binds(keywords) == keywords \subseteq cluster_cover_videos_parameters

\* Lines 55-63: the record with the rule-based and the cluster name written
\* into it.
video_written_back(video, ml_label, cluster_name_map) ==
    LET rule_classification == classify_cover_type(video)
    IN  [rule_name |-> rule_classification["name"],
         rule_icon |-> rule_classification["icon"],
         ml_name   |-> Get(cluster_name_map, ml_label, "Other")] @@ video

\* Lines 49-81: what the handler does with the result of the clustering,
\* `before` holding the locals of lines 25-44.
results_after_clustering(song_query, videos, before, cluster_results) ==
    IF cluster_results.type # "dict"
    THEN Raise("TypeError", "cluster_results[\"labels\"]")
    ELSE IF \E key \in {"labels", "cluster_name_map", "plot_data", "top_keywords"} :
                key \notin DOMAIN cluster_results.items
    THEN Raise("KeyError", "cluster_results")
    ELSE LET cover_videos == before.cover_videos
             noise_videos == before.noise_videos
             top_covers   == before.top_covers
             trend_score  == before.trend_score
             months       == before.months
             upload_counts == before.upload_counts
             labels == cluster_results.items["labels"]
             cluster_name_map == cluster_results.items["cluster_name_map"]
             \* The records are shared by every list that holds them.
             written(v) ==
                 IF \E i \in DOMAIN cover_videos : cover_videos[i] = v
                 THEN video_written_back(
                          v,
                          labels[CHOOSE i \in DOMAIN cover_videos : cover_videos[i] = v],
                          cluster_name_map)
                 ELSE v
             all_written(list) == [i \in DOMAIN list |-> written(list[i])]
         IN  IF Len(labels) < Len(cover_videos)
             THEN Raise("IndexError", "labels[i]")
             ELSE Return(render_template("results.html",
                    [videos        |-> all_written(videos),
                     song_query    |-> song_query,
                     top_covers    |-> all_written(top_covers),
                     trend_score   |-> trend_score,
                     trend_summary |-> generate_trend_summary(trend_score),
                     months        |-> months,
                     upload_counts |-> upload_counts,
                     cover_videos  |-> all_written(cover_videos),
                     noise_videos  |-> noise_videos,
                     cover_count   |-> Len(cover_videos),
                     total_results |-> Len(videos),
                     plot_data     |-> cluster_results.items["plot_data"],
                     top_keywords  |-> cluster_results.items["top_keywords"]]))

\* Lines 25-48: the handler up to the clustering call.  The outcome is the
\* exception that ends the request, or "clustering" with what the rest of
\* the handler goes on with.
results_before_clustering(videos, now) ==
    IF \E i \in DOMAIN videos : "title" \notin DOMAIN videos[i]
    THEN Raise("KeyError", "classify_video_title")
    ELSE LET cover_videos == videos_classified(videos, "cover")
             noise_videos == videos_classified(videos, "noise")
             top_covers   == get_top_covers(cover_videos, 3)
             trend_score  == calculate_trend_score(cover_videos, now)
             monthly      == get_monthly_upload_data(cover_videos)
         IN  IF top_covers.kind = "raise" THEN top_covers
             ELSE IF trend_score.kind = "raise" THEN trend_score
             ELSE IF monthly.kind = "raise" THEN monthly
             ELSE [kind          |-> "clustering",
                   cover_videos  |-> cover_videos,
                   noise_videos  |-> noise_videos,
                   top_covers    |-> top_covers.value,
                   trend_score   |-> trend_score.value,
                   months        |-> monthly.value[1],
                   upload_counts |-> monthly.value[2]]

\* Records as search_youtube_covers builds them: two covers, a cover whose
\* item came without publishedAt, and a video that is no cover.
FoundVideos ==
    {[title |-> "Vocal Cover", views |-> 1200, upload_date |-> "2025-02-28",
      description |-> "<30ae><30bf><30fc> solo"],                   \* ギター solo
     [title |-> "Acoustic Guitar Cover", views |-> 250000, upload_date |-> "2024-03-01",
      description |-> ""],
     [title |-> "Piano Cover", views |-> 77, upload_date |-> "",
      description |-> ""],
     [title |-> "Official Music Video", views |-> 30000000, upload_date |-> "2025-03-01",
      description |-> ""]}

\* request.form.get("song") or request.args.get("song"): nothing, or a song.
Songs == {"", "Lemon"}

Init ==
    /\ call \in {[fn |-> "results", method |-> m, song |-> song, found |-> vs, now |-> now] :
                    m \in {"GET", "POST"},
                    song \in Songs,
                    vs \in UNION {[1..n -> FoundVideos] : n \in 0..MaxFoundVideos},
                    now \in {CHOOSE t \in Nows : t.month = 11}}
    /\ ret = Pending

\* The handler of /results, from the request to the rendered page or the
\* exception that ends it.
Results ==
    /\ call.fn = "results"
    /\ ret = Pending
    /\ LET song_query == call.song
           videos     == call.found
           before     == results_before_clustering(videos, call.now)
       IN  IF song_query = ""
           THEN ret' = Return(render_template("results.html",
                                              [videos |-> <<>>, song_query |-> ""]))
           ELSE IF before.kind = "raise"
           THEN ret' = before
           ELSE IF ~call_binds({"videos", "song_query"})
           THEN ret' = Raise("TypeError", "cluster_cover_videos")
           ELSE \E labels \in KMeansLabelings(
                                 [i \in DOMAIN before.cover_videos |->
                                     _text_for_video(before.cover_videos[i])]) :
                   LET cluster_results == cluster_cover_videos(before.cover_videos, labels)
                   IN  IF cluster_results.kind = "raise"
                       THEN ret' = cluster_results
                       ELSE ret' = results_after_clustering(
                                       song_query, videos, before, cluster_results.value)
    /\ UNCHANGED call

Next == Results

Spec == Init /\ [][Next]_vars

\* C1: a request with a song never ends in the clustering stage: whenever
\* the handler gets as far as clustering the covers (none, 1 to 3, 4 or
\* more), it renders the results page with plot data and top keywords.
C1_ClusteringNeverAbortsRequest ==
    (/\ call.fn = "results"
     /\ call.song # ""
     /\ ret # Pending
     /\ results_before_clustering(call.found, call.now).kind = "clustering")
    => /\ ret.kind = "return"
       /\ ret.value.template = "results.html"
       /\ {"plot_data", "top_keywords", "cover_videos"} \subseteq DOMAIN ret.value.context

=============================================================================
